---- MODULE Spec2Model ----
(***************************************************************************)
(* audio_overlay: overlay() of src/src/lib.rs and the Overlayable /        *)
(* ValueBounds implementations it uses.                                    *)
(*                                                                         *)
(* One call of overlay() is run step by step (entry, one action per kind   *)
(* of loop iteration, loop exit).  Integer samples are Rust's i8 and i16   *)
(* at their real width.  f32 samples are counted in halves (1 = 0.5,       *)
(* 2 = 1.0, 3 = 1.5 ...): on these values f32 addition and comparison are  *)
(* exact.  The start time is counted in half seconds for the same reason.  *)
(***************************************************************************)
EXTENDS Integers, Sequences, FiniteSets

\* ------------------------------------------------------------------------
\* Bounds of the model
\* ------------------------------------------------------------------------
MaxDstLen == 3
MaxSrcLen == 3
MaxTime2 == 3

\* ------------------------------------------------------------------------
\* Program constants
\* ------------------------------------------------------------------------
I8_MAX == 127
I8_MIN == -128
I16_MAX == 32767
I16_MIN == -32768
\* 1.0 and -1.0 of ValueBounds for f32, in halves
F32_MAX == 2
F32_MIN == -2

IntTypes == {"i8", "i16"}
Types == IntTypes \cup {"f32"}
Framerates == {1, 2}

\* T::MIN / T::MAX of the integer sample type T
TMin(t) == IF t = "i8" THEN I8_MIN ELSE I16_MIN
TMax(t) == IF t = "i8" THEN I8_MAX ELSE I16_MAX
Bits(t) == IF t = "i8" THEN 8 ELSE 16

\* T::from(0)
zero == 0

\* two's complement value of x kept to `bits` bits (wrapping arithmetic and
\* the truncating `as` cast)
WrapTo(bits, x) == ((x + 2^(bits - 1)) % (2^bits)) - 2^(bits - 1)

\* mutants: the bounds of the type one step narrower than the sample type
ValueBounds_min_narrower(t) ==
    CASE t \in IntTypes -> I8_MIN
      [] OTHER -> F32_MIN

ValueBounds_max_narrower(t) ==
    CASE t \in IntTypes -> I8_MAX
      [] OTHER -> F32_MAX

\* U::min() and U::max() of overlay(): U is the widened type of the sample
\* type t (i16 for i8, i32 for i16, f32 for f32)
ValueBounds_min(t) ==
    CASE t = "i8" -> I8_MIN
      [] t = "i16" -> I16_MIN
      [] OTHER -> F32_MIN

ValueBounds_max(t) ==
    CASE t = "i8" -> I8_MAX
      [] t = "i16" -> I16_MAX
      [] OTHER -> F32_MAX

clamp(value, min, max) ==
    IF value > max THEN max
    ELSE IF value < min THEN min
    ELSE value

\* `a + b` evaluated in the integer sample type overflows
AddOverflows(t, a, b) == (a + b > TMax(t)) \/ (a + b < TMin(t))

Returned(v) == [panic |-> FALSE, value |-> v]
Panicked == [panic |-> TRUE, value |-> 0]

\* <T as Overlayable<T, U>>::overlay(a, b, min, max).  For the integer types
\* `a + b` is evaluated in T: with overflow checks (debug profile) an
\* overflowing sum panics, without them (release profile) it wraps.  The sum
\* is then cast to U, clamped and cast back to T.
Overlayable_overlay(t, oc, a, b, min, max) ==
    IF t \in IntTypes
    THEN IF oc /\ AddOverflows(t, a, b)
         THEN Panicked
         ELSE Returned(WrapTo(Bits(t), clamp(WrapTo(Bits(t), a + b), min, max)))
    ELSE Returned(clamp(a + b, min, max))

\* mutant: a non-zero destination sample is kept, the mix is forgotten
Written_keepDst(t, oc, d, v) ==
    IF d = zero THEN Returned(v) ELSE Returned(d)

\* the value overlay() stores at a position holding d when source sample v
\* lands on it
Written(t, oc, d, v) ==
    IF d = zero THEN Returned(v)
    ELSE Overlayable_overlay(t, oc, d, v, ValueBounds_min(t), ValueBounds_max(t))

\* (time * framerate as f64) as usize, time in half seconds; the cast
\* truncates toward zero and saturates negative values to 0
StartIndex(t2, fr) == IF t2 * fr < 0 THEN 0 ELSE (t2 * fr) \div 2

\* mutant: one zero too many
Zeros_oneMore(n) == [k \in 1..(n + 1) |-> zero]

\* vec![zero; n]
Zeros(n) == [k \in 1..n |-> zero]

\* mutant: `src` appended instead of `src[i..]`
Rest_whole(s, i) == s

\* src[i..]
Rest(s, i) == SubSeq(s, i + 1, Len(s))

\* ------------------------------------------------------------------------
\* Inputs of the model
\* ------------------------------------------------------------------------
\* samples of dst: silence, both ends of the integer range; -0.5 and 1.5
DstSamples(t) ==
    CASE t = "i8" -> {I8_MIN, 0, I8_MAX}
      [] t = "i16" -> {I16_MIN, 0, I16_MAX}
      [] OTHER -> {-1, 0, 3}

\* samples of src: silence and the top of the integer range; 1.5
SrcSamples(t) ==
    CASE t = "i8" -> {0, I8_MAX}
      [] t = "i16" -> {0, I16_MAX}
      [] OTHER -> {0, 3}

\* pairs for the mixing rule alone: all of i8, the boundaries of i16,
\* -2.0 .. 2.0

MixSamples(t) ==
    CASE t = "i8" -> I8_MIN..I8_MAX
      [] t = "i16" -> {I16_MIN, I16_MIN + 1, -1000, -129, -128, -1, 0,
                       1, 127, 128, 1000, I16_MAX - 1, I16_MAX}
      [] OTHER -> -4..4

SeqsUpTo(S, n) == UNION {[1..k -> S] : k \in 0..n}

NoOutcome == [panic |-> FALSE, value |-> 0]

VARIABLES
    ty,               \* the sample type T
    overflow_checks,  \* the build evaluates `a + b` with overflow checks
    src, dst, time2, framerate, add,   \* the arguments of overlay()
    index, len, i,    \* its locals; i is the enumerate() position
    pc,               \* "start", "loop", "done", "panicked", "idle"
    dst0,             \* dst as it was passed in
    nInPlace, nAppend,\* in-place writes and src-append steps so far
    ma, mb,           \* a pair of samples for the mixing rule alone
    mpc,              \* "idle", "args", "mixed", "landed"
    mixed,            \* T::overlay(ma, mb, min, max)
    writtenAB, writtenBA  \* what is stored when ma lands on mb, mb on ma

vars == <<ty, overflow_checks, src, dst, time2, framerate, add, index, len, i,
          pc, dst0, nInPlace, nAppend, ma, mb, mpc, mixed, writtenAB, writtenBA>>

callVars == <<src, dst, time2, framerate, add, index, len, i, pc, dst0,
              nInPlace, nAppend>>
mixVars == <<ma, mb, mpc, mixed, writtenAB, writtenBA>>

index0 == StartIndex(time2, framerate)
L == Len(dst0)

\* ------------------------------------------------------------------------
\* overlay()
\* ------------------------------------------------------------------------
MixIdle ==
    /\ ma = 0 /\ mb = 0 /\ mpc = "idle"
    /\ mixed = NoOutcome /\ writtenAB = NoOutcome /\ writtenBA = NoOutcome

Init ==
    /\ ty \in Types
    /\ overflow_checks \in BOOLEAN
    /\ src \in SeqsUpTo(SrcSamples(ty), MaxSrcLen)
    /\ dst \in SeqsUpTo(DstSamples(ty), MaxDstLen)
    /\ time2 \in 0..MaxTime2
    /\ framerate \in Framerates
    /\ add \in BOOLEAN
    /\ index = 0 /\ len = 0 /\ i = 0
    /\ pc = "start"
    /\ dst0 = dst
    /\ nInPlace = 0 /\ nAppend = 0
    /\ MixIdle

\* mutant: the `if add` test of the early return is missing
EnterPastEnd_alwaysAdd ==
    /\ pc = "start"
    /\ StartIndex(time2, framerate) >= Len(dst)
    /\ index' = StartIndex(time2, framerate)
    /\ len' = Len(dst)
    /\ dst' = dst \o Zeros(index' - len') \o src
    /\ nAppend' = nAppend + 1
    /\ pc' = "done"
    /\ UNCHANGED <<ty, overflow_checks, src, time2, framerate, add, i, dst0,
                   nInPlace>>
    /\ UNCHANGED mixVars

\* lines 80-94: the start index is at or after the end of dst
EnterPastEnd ==
    /\ pc = "start"
    /\ StartIndex(time2, framerate) >= Len(dst)
    /\ index' = StartIndex(time2, framerate)
    /\ len' = Len(dst)
    /\ IF add
       THEN /\ dst' = dst \o Zeros(index' - len') \o src
            /\ nAppend' = nAppend + 1
       ELSE UNCHANGED <<dst, nAppend>>
    /\ pc' = "done"
    /\ UNCHANGED <<ty, overflow_checks, src, time2, framerate, add, i, dst0,
                   nInPlace>>
    /\ UNCHANGED mixVars

\* mutant: the walk starts at position 0 whatever the start time
EnterLoop_fromZero ==
    /\ pc = "start"
    /\ StartIndex(time2, framerate) < Len(dst)
    /\ index' = 0
    /\ len' = Len(dst)
    /\ i' = 0
    /\ pc' = "loop"
    /\ UNCHANGED <<ty, overflow_checks, src, dst, time2, framerate, add, dst0,
                   nInPlace, nAppend>>
    /\ UNCHANGED mixVars

\* lines 80-98: the start index is inside dst, the loop is entered
EnterLoop ==
    /\ pc = "start"
    /\ StartIndex(time2, framerate) < Len(dst)
    /\ index' = StartIndex(time2, framerate)
    /\ len' = Len(dst)
    /\ i' = 0
    /\ pc' = "loop"
    /\ UNCHANGED <<ty, overflow_checks, src, dst, time2, framerate, add, dst0,
                   nInPlace, nAppend>>
    /\ UNCHANGED mixVars

\* mutant: the `return` after the append is missing, the iteration goes on
\* to its in-place write
StepBoundary_fallThrough ==
    /\ pc = "loop"
    /\ i < Len(src)
    /\ index >= len
    /\ IF add
       THEN /\ dst' = [(dst \o Rest(src, i)) EXCEPT ![index + 1] = src[i + 1]]
            /\ nAppend' = nAppend + 1
            /\ nInPlace' = nInPlace + 1
            /\ index' = index + 1
            /\ i' = i + 1
            /\ pc' = pc
       ELSE /\ pc' = "done"
            /\ UNCHANGED <<dst, nAppend, nInPlace, index, i>>
    /\ UNCHANGED <<ty, overflow_checks, src, time2, framerate, add, len, dst0>>
    /\ UNCHANGED mixVars

\* lines 100-105: the walk has reached the end of dst
StepBoundary ==
    /\ pc = "loop"
    /\ i < Len(src)
    /\ index >= len
    /\ IF add
       THEN /\ dst' = dst \o Rest(src, i)
            /\ nAppend' = nAppend + 1
       ELSE UNCHANGED <<dst, nAppend>>
    /\ pc' = "done"
    /\ UNCHANGED <<ty, overflow_checks, src, time2, framerate, add, index, len,
                   i, dst0, nInPlace>>
    /\ UNCHANGED mixVars

\* mutant: the source position is not advanced after an overwrite
StepOverwrite_noAdvance ==
    /\ pc = "loop"
    /\ i < Len(src)
    /\ index < len
    /\ dst[index + 1] = zero
    /\ dst' = [dst EXCEPT ![index + 1] = src[i + 1]]
    /\ index' = index + 1
    /\ nInPlace' = nInPlace + 1
    /\ UNCHANGED <<ty, overflow_checks, src, time2, framerate, add, len, pc,
                   dst0, nAppend, i>>
    /\ UNCHANGED mixVars

\* lines 107-109, 115: no data at this index, the sample is stored as it is
StepOverwrite ==
    /\ pc = "loop"
    /\ i < Len(src)
    /\ index < len
    /\ dst[index + 1] = zero
    /\ dst' = [dst EXCEPT
                 ![index + 1] = Written(ty, overflow_checks, dst[index + 1],
                                        src[i + 1]).value]
    /\ index' = index + 1
    /\ i' = i + 1
    /\ nInPlace' = nInPlace + 1
    /\ UNCHANGED <<ty, overflow_checks, src, time2, framerate, add, len, pc,
                   dst0, nAppend>>
    /\ UNCHANGED mixVars

\* lines 111-115: overlay the sample; a panic of `a + b` ends the call
StepMix ==
    /\ pc = "loop"
    /\ i < Len(src)
    /\ index < len
    /\ dst[index + 1] # zero
    /\ LET r == Written(ty, overflow_checks, dst[index + 1], src[i + 1])
       IN IF r.panic
          THEN /\ pc' = "panicked"
               /\ UNCHANGED <<dst, index, i, nInPlace>>
          ELSE /\ dst' = [dst EXCEPT ![index + 1] = r.value]
               /\ index' = index + 1
               /\ i' = i + 1
               /\ nInPlace' = nInPlace + 1
               /\ pc' = pc
    /\ UNCHANGED <<ty, overflow_checks, src, time2, framerate, add, len, dst0,
                   nAppend>>
    /\ UNCHANGED mixVars

\* lines 98, 117: src is exhausted
LoopExit ==
    /\ pc = "loop"
    /\ i = Len(src)
    /\ pc' = "done"
    /\ UNCHANGED <<ty, overflow_checks, src, dst, time2, framerate, add, index,
                   len, i, dst0, nInPlace, nAppend>>
    /\ UNCHANGED mixVars

Next ==
    \/ EnterPastEnd
    \/ EnterLoop
    \/ StepBoundary
    \/ StepOverwrite
    \/ StepMix
    \/ LoopExit

Spec == Init /\ [][Next]_vars

\* the call is scheduled until it returns or panics
FairSpec == Spec /\ WF_vars(Next)

\* ------------------------------------------------------------------------
\* The mixing rule alone, on a pair of samples
\* ------------------------------------------------------------------------
CallIdle ==
    /\ src = <<>> /\ dst = <<>> /\ dst0 = <<>>
    /\ time2 = 0 /\ framerate = 1 /\ add = FALSE
    /\ index = 0 /\ len = 0 /\ i = 0 /\ pc = "idle"
    /\ nInPlace = 0 /\ nAppend = 0

InitMix ==
    /\ ty \in Types
    /\ overflow_checks \in BOOLEAN
    /\ ma \in MixSamples(ty)
    /\ mb \in MixSamples(ty)
    /\ mpc = "args"
    /\ mixed = NoOutcome /\ writtenAB = NoOutcome /\ writtenBA = NoOutcome
    /\ CallIdle

\* T::overlay(ma, mb, min, max) with the bounds overlay() passes (lines 96-97)
MixCall ==
    /\ mpc = "args"
    /\ mixed' = Overlayable_overlay(ty, overflow_checks, ma, mb,
                                    ValueBounds_min(ty), ValueBounds_max(ty))
    /\ mpc' = "mixed"
    /\ UNCHANGED <<ty, overflow_checks, ma, mb, writtenAB, writtenBA>>
    /\ UNCHANGED callVars

\* lines 107-113 on source sample ma over destination sample mb, and on
\* source sample mb over destination sample ma
Land ==
    /\ mpc = "mixed"
    /\ writtenAB' = Written(ty, overflow_checks, mb, ma)
    /\ writtenBA' = Written(ty, overflow_checks, ma, mb)
    /\ mpc' = "landed"
    /\ UNCHANGED <<ty, overflow_checks, ma, mb, mixed>>
    /\ UNCHANGED callVars

NextMix ==
    \/ MixCall
    \/ Land

SpecMix == InitMix /\ [][NextMix]_vars

\* ------------------------------------------------------------------------
\* Properties
\* ------------------------------------------------------------------------
Min(x, y) == IF x < y THEN x ELSE y

Terminated == pc \in {"done", "panicked"}
MixDone == mpc \in {"mixed", "landed"}

\* 0-based positions of dst0 that src lands on
Overlap == index0 .. (Min(L, index0 + Len(src)) - 1)

\* the value the in-place phase leaves at 0-based position p of the overlap
InPlaceValue(p) ==
    IF dst0[p + 1] = zero
    THEN src[p - index0 + 1]
    ELSE Overlayable_overlay(ty, overflow_checks, dst0[p + 1],
                             src[p - index0 + 1], ValueBounds_min(ty),
                             ValueBounds_max(ty)).value

\* C1: for every integer sample type and every pair of samples, the mixing
\* rule neither panics nor wraps: it returns the mathematical sum a + b
\* clamped to the min/max of the sample type.
C1_NoOverflow ==
    (MixDone /\ ty \in IntTypes) =>
        /\ ~mixed.panic
        /\ mixed.value = clamp(ma + mb, TMin(ty), TMax(ty))

\* C2 as stated: the mix of two non-zero 16-bit samples always lies in the
\* 8-bit range [-128, 127].
C2_NarrowerBounds ==
    (MixDone /\ ty = "i16" /\ ma # zero /\ mb # zero /\ ~mixed.panic) =>
        mixed.value \in I8_MIN..I8_MAX

\* C2 amended: the value the mixing rule returns for two non-zero integer
\* samples lies within the bounds of the sample type itself, and a sum that
\* fits the sample type is returned as it is.
C2_OwnBounds ==
    (MixDone /\ ty \in IntTypes /\ ma # zero /\ mb # zero /\ ~mixed.panic) =>
        /\ mixed.value \in TMin(ty)..TMax(ty)
        /\ (~AddOverflows(ty, ma, mb) => mixed.value = ma + mb)

C2_Witness ==
    /\ mpc = "mixed" /\ ty = "i16" /\ ma = 128 /\ mb = 1
    /\ mixed = Returned(129)

\* C3: with a start index at or after the end of the destination and
\* add = false, the destination keeps its length and every value.
C3_Unchanged ==
    (index0 >= L /\ ~add) => dst = dst0

C3_Witness ==
    /\ pc = "done" /\ ~add /\ L > 0 /\ index0 = L
    /\ Len(src) > 0 /\ src[1] # zero /\ dst = dst0

\* C4: with a start index at or after the end of the destination and
\* add = true, the destination ends with length index + len(src): its old
\* values, then zeros up to index, then src verbatim.
C4_GrowPastEnd ==
    (pc = "done" /\ index0 >= L /\ add) =>
        /\ Len(dst) = index0 + Len(src)
        /\ \A p \in 1..L : dst[p] = dst0[p]
        /\ \A p \in (L + 1)..index0 : dst[p] = zero
        /\ \A k \in 1..Len(src) : dst[index0 + k] = src[k]

C4_Witness ==
    /\ pc = "done" /\ add /\ L = 1 /\ index0 = 3 /\ dst0[1] # zero
    /\ Len(src) = 2 /\ src[1] # zero /\ src[1] # src[2]
    /\ dst = <<dst0[1], zero, zero, src[1], src[2]>>

\* C5: with a start index inside the destination and add = false, the
\* length is kept and every position src lands on holds the source sample
\* if it held zero, else the mix of its old value and the source sample;
\* the source samples past the end are dropped.
C5_InPlaceNoGrow ==
    (pc = "done" /\ index0 < L /\ ~add) =>
        /\ Len(dst) = L
        /\ \A p \in Overlap : dst[p + 1] = InPlaceValue(p)

C5_Witness ==
    /\ pc = "done" /\ ~add /\ ty = "i16" /\ index0 = 0
    /\ dst0 = <<I16_MIN, 0>>
    /\ src = <<I16_MAX, I16_MAX, I16_MAX>>
    /\ dst = <<-1, I16_MAX>>

\* C6: with a start index inside the destination, add = true and a source
\* reaching past the end, the destination ends with length
\* index + len(src): the positions up to its old end hold the in-place
\* result and the rest of src follows verbatim, in order.
C6_GrowTail ==
    (pc = "done" /\ index0 < L /\ add /\ index0 + Len(src) > L) =>
        /\ Len(dst) = index0 + Len(src)
        /\ \A p \in index0..(L - 1) : dst[p + 1] = InPlaceValue(p)
        /\ \A p \in L..(index0 + Len(src) - 1) : dst[p + 1] = src[p - index0 + 1]

C6_Witness ==
    /\ pc = "done" /\ add /\ ty = "i16" /\ index0 = 0
    /\ dst0 = <<I16_MIN>>
    /\ src = <<I16_MAX, I16_MAX, 0>>
    /\ dst = <<-1, I16_MAX, 0>>

AllZero(s) == \A k \in 1..Len(s) : s[k] = zero

\* C7 as stated: an all-zero source laid with add = false over any
\* destination, of any sample values, leaves the overlapped positions as
\* they were.
C7_ZeroOverlayAny ==
    (pc = "done" /\ index0 < L /\ ~add /\ AllZero(src)) =>
        \A p \in Overlap : dst[p + 1] = dst0[p + 1]

\* C7 amended: an all-zero source laid with add = false leaves the
\* overlapped positions as they were for integer samples, and for float
\* samples whose old values there lie within [-1.0, 1.0].
C7_ZeroOverlayInRange ==
    (/\ pc = "done" /\ index0 < L /\ ~add /\ AllZero(src)
     /\ \/ ty \in IntTypes
        \/ \A p \in Overlap : dst0[p + 1] \in F32_MIN..F32_MAX) =>
        \A p \in Overlap : dst[p + 1] = dst0[p + 1]

C7_Witness ==
    /\ pc = "done" /\ ~add /\ ty = "i16" /\ index0 = 1
    /\ dst0 = <<0, I16_MIN, I16_MAX>>
    /\ src = <<0, 0>>
    /\ nInPlace = 2 /\ dst = dst0

\* C8: for integer samples, what overlay() stores when source sample a
\* lands on destination sample b equals what it stores when b lands on a.
C8_Commutative ==
    (mpc = "landed" /\ ty \in IntTypes) => writtenAB = writtenBA

C8_Witness ==
    /\ mpc = "landed" /\ ty = "i16" /\ ma = 127 /\ mb = -1000
    /\ writtenAB = Returned(-873) /\ writtenBA = Returned(-873)

C10_Frame ==
    (index0 < L) =>
        /\ \A p \in 1..L :
              (p <= index0 \/ p > index0 + Len(src)) =>
                  (p <= Len(dst) /\ dst[p] = dst0[p])
        /\ (pc = "done" /\ index0 + Len(src) <= L) => Len(dst) = L

C10_Witness ==
    /\ pc = "done" /\ add /\ L = 3 /\ index0 = 1 /\ Len(src) = 1
    /\ dst0[1] # zero /\ dst0[3] # zero
    /\ dst[2] # dst0[2] /\ dst[1] = dst0[1] /\ dst[3] = dst0[3]

====
